---- MODULE Spec2Model ----
(***************************************************************************)
(* The worker-request forwarder of packages/server: request() builds the   *)
(* outbound descriptor, checkResponse() interprets the worker's answer,    *)
(* and eight worker operations chain request -> fetch -> checkResponse.    *)
(*                                                                         *)
(* Text (header values, JSON text, messages) is a sequence of tokens, so   *)
(* that serialising, parsing and message composition are computed and not  *)
(* assumed.  A JavaScript value is a record tagged by its typeof.          *)
(***************************************************************************)
EXTENDS Integers, Sequences, FiniteSets, TLC

\* ------------------------------------------------------------------ bounds
\* longest array of values one inbound header carries
MaxValues == 2
\* longest pair-list / mapping supplied as base headers
MaxPairs == 2
\* most header values (base entries plus inbound values) supplied to one call
MaxEntries == 4

\* ------------------------------------------------------------ JS values
JUndefined == [t |-> "undefined"]
JNull == [t |-> "null"]
JStr(s) == [t |-> "string", v |-> s]
JNum(n) == [t |-> "number", v |-> n]
JObj(ps) == [t |-> "object", v |-> ps]

\* if (x): undefined, null, "" and 0 are falsy
Truthy(v) ==
  CASE v.t = "undefined" -> FALSE
    [] v.t = "null" -> FALSE
    [] v.t = "string" -> Len(v.v) > 0
    [] v.t = "number" -> v.v # 0
    [] OTHER -> TRUE

\* Object.keys(x).length of a truthy x: own enumerable keys of an object
\* (a key whose value is undefined counts), the indices of a string, none
\* for a number
ObjectKeysLength(v) ==
  CASE v.t = "object" -> Len(v.v)
    [] v.t = "string" -> Len(v.v)
    [] OTHER -> 0

RECURSIVE JSONstringify(_), StringifyMembers(_, _)
\* JSON.stringify: members whose value is undefined are left out
JSONstringify(v) ==
  CASE v.t = "null" -> <<"null">>
    [] v.t = "number" -> <<ToString(v.v)>>
    [] v.t = "string" -> <<"\"">> \o v.v \o <<"\"">>
    [] v.t = "object" -> <<"{">> \o StringifyMembers(v.v, TRUE) \o <<"}">>
StringifyMembers(ps, first) ==
  IF ps = <<>> THEN <<>>
  ELSE IF ps[1][2].t = "undefined" THEN StringifyMembers(Tail(ps), first)
  ELSE (IF first THEN <<>> ELSE <<",">>)
         \o <<"\"", ps[1][1], "\"", ":">>
         \o JSONstringify(ps[1][2])
         \o StringifyMembers(Tail(ps), FALSE)

\* `${x}` of a template literal
TemplateString(v) ==
  CASE v.t = "string" -> v.v
    [] v.t = "number" -> <<ToString(v.v)>>
    [] v.t = "object" -> <<"[object Object]">>
    [] OTHER -> <<v.t>>

\* --------------------------------------------------------------- parsing
InvalidJson == [t |-> "invalid-json"]
Digits == 0..9
IsNumberToken(tok) == \E n \in Digits : ToString(n) = tok
NumberOf(tok) == CHOOSE n \in Digits : ToString(n) = tok

\* position of the first quote token at or after i, 0 when there is none
RECURSIVE NextQuote(_, _)
NextQuote(ts, i) ==
  IF i > Len(ts) THEN 0
  ELSE IF ts[i] = "\"" THEN i
  ELSE NextQuote(ts, i + 1)

\* the end of the value that starts at i (null, a digit, or a quoted
\* string), 0 when none starts there
ValueEnd(ts, i) ==
  IF i > Len(ts) THEN 0
  ELSE IF ts[i] = "\"" THEN NextQuote(ts, i + 1)
  ELSE IF ts[i] = "null" \/ IsNumberToken(ts[i]) THEN i
  ELSE 0

ParseScalar(ts) ==
  IF ts = <<"null">> THEN JNull
  ELSE IF Len(ts) = 1 /\ IsNumberToken(ts[1]) THEN JNum(NumberOf(ts[1]))
  ELSE JStr(SubSeq(ts, 2, Len(ts) - 1))

\* the members between the braces: [ok, v], v the sequence of <<key, value>>
NoMembers == [ok |-> FALSE, v |-> <<>>]
RECURSIVE ParseMembers(_)
ParseMembers(ts) ==
  IF Len(ts) < 5 \/ ts[1] # "\"" \/ ts[3] # "\"" \/ ts[4] # ":"
  THEN NoMembers
  ELSE
    LET e == ValueEnd(ts, 5) IN
    IF e = 0 THEN NoMembers
    ELSE
      LET member == <<ts[2], ParseScalar(SubSeq(ts, 5, e))>> IN
      IF e = Len(ts) THEN [ok |-> TRUE, v |-> <<member>>]
      ELSE IF ts[e + 1] # "," THEN NoMembers
      ELSE
        LET rest == ParseMembers(SubSeq(ts, e + 2, Len(ts))) IN
        IF rest.ok THEN [ok |-> TRUE, v |-> <<member>> \o rest.v]
        ELSE NoMembers

\* JSON.parse on the token grammar: a scalar, or an object of scalars
JSONparse(ts) ==
  IF ts = <<>> THEN InvalidJson
  ELSE IF ts[1] = "{" THEN
    IF ts[Len(ts)] # "}" \/ Len(ts) < 2 THEN InvalidJson
    ELSE IF Len(ts) = 2 THEN JObj(<<>>)
    ELSE
      LET ms == ParseMembers(SubSeq(ts, 2, Len(ts) - 1)) IN
      IF ms.ok THEN JObj(ms.v) ELSE InvalidJson
  ELSE IF ValueEnd(ts, 1) = Len(ts) THEN ParseScalar(ts)
  ELSE InvalidJson

\* obj.key of a parsed value: undefined when the object has no such member
RECURSIVE GetMember(_, _)
GetMember(ps, key) ==
  IF ps = <<>> THEN JUndefined
  ELSE IF ps[Len(ps)][1] = key THEN ps[Len(ps)][2]
  ELSE GetMember(SubSeq(ps, 1, Len(ps) - 1), key)

\* --------------------------------------------------------------- records
\* r[f] of a JS object: undefined when the field is absent
Get(r, f) == IF f \in DOMAIN r THEN r[f] ELSE JUndefined
\* r[f] = v
Put(r, f, v) == [k \in DOMAIN r \cup {f} |-> IF k = f THEN v ELSE r[k]]
\* delete r[f]
Delete(r, f) == [k \in DOMAIN r \ {f} |-> r[k]]

\* --------------------------------------------------------------- headers
API_KEY == "x-budibase-api-key"
TENANT_ID == "x-budibase-tenant-id"
CORRELATION_ID == "x-budibase-correlation-id"
CONTENT_TYPE == "content-type"
\* Object.values(constants.Header): the allow-list, in enumeration order
HeaderList == <<API_KEY, TENANT_ID, CORRELATION_ID>>
AllowList == {HeaderList[i] : i \in 1..Len(HeaderList)}
\* every normalised header name of the model
Names == AllowList \cup {CONTENT_TYPE}

\* header names are case-insensitive: a Headers container keys by the
\* lower-cased name
Lower(name) == IF name = "Content-Type" THEN CONTENT_TYPE ELSE name

\* a Headers container: the values of each name, in the order appended
EmptyHeaders == [n \in Names |-> <<>>]
HeadersAppend(h, name, value) == [h EXCEPT ![Lower(name)] = Append(@, value)]
HeadersSet(h, name, value) == [h EXCEPT ![Lower(name)] = <<value>>]

RECURSIVE AppendPairs(_, _)
AppendPairs(h, pairs) ==
  IF pairs = <<>> THEN h
  ELSE AppendPairs(HeadersAppend(h, pairs[1][1], pairs[1][2]), Tail(pairs))

\* (the pairs written with set: a repeated name keeps its last value)
ensureHeadersIsObjectSet(headers) ==
  IF headers.t = "Headers" THEN headers.v
  ELSE IF headers.t = "undefined" THEN EmptyHeaders
  ELSE [n \in Names |->
          LET at == {i \in 1..Len(headers.v) : Lower(headers.v[i][1]) = n}
          IN IF at = {} THEN <<>>
             ELSE <<headers.v[CHOOSE i \in at : \A j \in at : j <= i][2]>>]

\* headers: undefined, [t: "Headers"], [t: "array"] of <<name, value>>, or
\* [t: "object"], a mapping held as its <<key, value>> in key order
ensureHeadersIsObject(headers) ==
  IF headers.t = "Headers" THEN headers.v
  ELSE IF headers.t = "undefined" THEN EmptyHeaders
  ELSE AppendPairs(EmptyHeaders, headers.v)

\* an inbound header value: one string, or an array of strings
HStr(x) == [t |-> "string", v |-> x]
HArr(xs) == [t |-> "array", v |-> xs]

\* the writes the copy loop makes, header by header of the allow-list
RECURSIVE CopyWrites(_, _)
\* (the loop with set in place of append)
CopyWritesSet(ctxHeaders, i) ==
  IF i > Len(HeaderList) THEN <<>>
  ELSE
    LET header == HeaderList[i]
        value == Get(ctxHeaders, header)
    IN (IF value.t = "undefined" THEN <<>>
        ELSE IF value.t = "array"
          THEN [k \in 1..Len(value.v) |->
                 [op |-> "set", name |-> header, value |-> value.v[k]]]
          ELSE <<[op |-> "set", name |-> header, value |-> value.v]>>)
       \o CopyWrites(ctxHeaders, i + 1)
CopyWrites(ctxHeaders, i) ==
  IF i > Len(HeaderList) THEN <<>>
  ELSE
    LET header == HeaderList[i]
        value == Get(ctxHeaders, header)
    IN (IF value.t = "undefined" THEN <<>>
        ELSE IF value.t = "array"
          THEN [k \in 1..Len(value.v) |->
                 [op |-> "append", name |-> header, value |-> value.v[k]]]
          ELSE <<[op |-> "set", name |-> header, value |-> value.v]>>)
       \o CopyWrites(ctxHeaders, i + 1)

RECURSIVE ApplyWrites(_, _)
ApplyWrites(h, ws) ==
  IF ws = <<>> THEN h
  ELSE ApplyWrites(
         IF ws[1].op = "append" THEN HeadersAppend(h, ws[1].name, ws[1].value)
         ELSE HeadersSet(h, ws[1].name, ws[1].value),
         Tail(ws))

\* logging.correlation.setHeader: stamps the correlation identifier
CorrelationToken == "correlation-token"
setHeader(h) == HeadersSet(h, CORRELATION_ID, CorrelationToken)

\* --------------------------------------------------------------- request
\* the writes of the context branch: none without a context or without
\* inbound headers
ContextWrites(ctx) ==
  IF ctx.t = "undefined" THEN <<>>
  ELSE IF ctx.headers.t = "undefined" THEN <<>>
  ELSE CopyWrites(ctx.headers.v, 1)

\* (the key attached whether or not a context came)
HeadersAfterContextKeyed(h0, ctx, key) ==
  LET h == ApplyWrites(h0, ContextWrites(ctx))
  IN IF key.t # "undefined" THEN HeadersSet(h, API_KEY, key.v) ELSE h
HeadersAfterContext(h0, ctx, key) ==
  IF ctx.t = "undefined"
  THEN IF key.t # "undefined" THEN HeadersSet(h0, API_KEY, key.v) ELSE h0
  ELSE ApplyWrites(h0, ContextWrites(ctx))

\* (the tenant appended, not set)
HeadersAfterTenancyAppend(h1, tenant) ==
  IF tenant.t # "undefined" THEN HeadersAppend(h1, TENANT_ID, tenant.v) ELSE h1
HeadersAfterTenancy(h1, tenant) ==
  IF tenant.t # "undefined" THEN HeadersSet(h1, TENANT_ID, tenant.v) ELSE h1

\* if (request.body && Object.keys(request.body).length > 0)
HasBodyTruthy(body) == Truthy(body)
HasBody(body) == Truthy(body) /\ ObjectKeysLength(body) > 0

\* typeof body === "object" ? JSON.stringify(body) : body
SerializeBodyAlways(body) == JStr(JSONstringify(body))
SerializeBody(body) ==
  IF body.t = "object" THEN JStr(JSONstringify(body)) ELSE body

\* request(init): the returned descriptor.  key is coreEnv.INTERNAL_API_KEY
\* and tenant the caller's ambient tenant, each undefined or a string.
request(init, tenant, key) ==
  LET ctx == Get(init, "ctx")
      h0 == ensureHeadersIsObject(Get(init, "headers"))
      h1 == HeadersAfterContext(h0, ctx, key)
      h2 == HeadersAfterTenancy(h1, tenant)
      body == Get(init, "body")
      h3 == IF HasBody(body)
            THEN HeadersSet(h2, "Content-Type", "application/json")
            ELSE h2
      r3 == IF HasBody(body)
            THEN Put(init, "body", SerializeBody(body))
            ELSE Delete(init, "body")
      h4 == setHeader(h3)
  IN Delete(Put(r3, "headers", [t |-> "Headers", v |-> h4]), "ctx")

\* --------------------------------------------------------- checkResponse
\* the first status that is a failure
ErrorStatus == 300
\* response.headers.get("content-type")?.includes("json")
JsonTypes == {"application/json; charset=utf-8"}
IndicatesJson(ctype) == ctype \in JsonTypes

\* if (response.status >= 300)
IsFailureAbove(response) == response.status > 200
IsFailure(response) == response.status >= ErrorStatus

\* which body reader checkResponse awaits first
BodyReader(response) ==
  IF IsFailure(response) /\ ~IndicatesJson(response.ctype)
  THEN "text" ELSE "json"

\* error.message ?? JSON.stringify(error), of a parsed error body
ErrorDetail(error) ==
  LET message == IF error.t = "object" THEN GetMember(error.v, "message")
                 ELSE JUndefined
  IN IF message.t \in {"undefined", "null"} THEN JStr(JSONstringify(error))
     ELSE message

ComposeMessage(errorMsg, detail) ==
  <<"Unable to ", errorMsg, " - ">> \o TemplateString(detail)

\* how checkResponse(response, errorMsg, {ctx}) ends; hasCtx: a context was
\* passed to it
checkResponse(response, errorMsg, hasCtx) ==
  IF IsFailure(response) THEN
    LET error == JSONparse(response.body) IN
    IF IndicatesJson(response.ctype) /\ error.t = "invalid-json"
    THEN [kind |-> "rejected", error |-> "invalid-json"]
    ELSE IF IndicatesJson(response.ctype) /\ error.t = "null"
    THEN [kind |-> "rejected", error |-> "TypeError"]
    ELSE
      LET responseErrorMessage ==
            IF IndicatesJson(response.ctype) THEN ErrorDetail(error)
            ELSE JStr(response.body)
          msg == ComposeMessage(errorMsg, responseErrorMessage)
      IN IF hasCtx
         THEN [kind |-> "ctx.throw",
               status |-> IF response.status = 0 THEN 500 ELSE response.status,
               msg |-> msg]
         ELSE [kind |-> "thrown", value |-> JStr(msg)]
  ELSE
    LET parsed == JSONparse(response.body) IN
    IF parsed.t = "invalid-json"
    THEN [kind |-> "rejected", error |-> "invalid-json"]
    ELSE [kind |-> "returned", value |-> parsed]

\* ------------------------------------------------------ worker operations
ContextOps == {"removeAppFromUserRoles", "allGlobalUsers", "saveGlobalUser",
               "deleteGlobalUser", "readGlobalUser"}
ContextFreeOps == {"sendSmtpEmail", "getChecklist", "generateApiKey"}
Operations == ContextOps \cup ContextFreeOps

\* the label each operation hands to checkResponse
ErrorMsg(o) ==
  CASE o = "sendSmtpEmail" -> "send email"
    [] o = "removeAppFromUserRoles" -> "remove app role"
    [] o = "allGlobalUsers" -> "get users"
    [] o = "saveGlobalUser" -> "save user"
    [] o = "deleteGlobalUser" -> "delete user"
    [] o = "readGlobalUser" -> "get user"
    [] o = "getChecklist" -> "get checklist"
    [] o = "generateApiKey" -> "generate API key"

\* the operations that hand their context on to checkResponse
PassesCtx(o) == o \in {"allGlobalUsers", "saveGlobalUser", "deleteGlobalUser",
                       "readGlobalUser"}

\* an init record: a field that is undefined is left out
WithField(r, f, v) == IF v.t = "undefined" THEN r ELSE Put(r, f, v)
MakeInit(method, ctx, headers, body) ==
  WithField(WithField(WithField([method |-> method], "ctx", ctx),
                      "headers", headers), "body", body)

\* ---------------------------------------------------------------- inputs
\* the callers whose calls may be in flight together
Calls == {"a", "b"}

InboundVals == {"c1", "c2"}
InboundNames == {API_KEY, TENANT_ID, CONTENT_TYPE}
\* what one inbound header may carry: a string, or an array of strings
InboundHeaderValues ==
  {HStr("c1")} \cup
  {HArr(a) : a \in UNION {[1..n -> InboundVals] : n \in 0..MaxValues}}
InboundSize(value) ==
  IF value.t = "array" /\ Len(value.v) > 0 THEN Len(value.v) ELSE 1

RECURSIVE MapSize(_, _)
MapSize(m, names) ==
  IF names = {} THEN 0
  ELSE LET n == CHOOSE n \in names : TRUE
       IN InboundSize(m[n]) + MapSize(m, names \ {n})

\* ctx.headers: the inbound headers of a request, by lower-cased name
InboundHeaderMaps(budget) ==
  {m \in UNION {[S -> InboundHeaderValues] : S \in SUBSET InboundNames} :
     /\ MapSize(m, DOMAIN m) <= budget
     /\ CONTENT_TYPE \in DOMAIN m => m[CONTENT_TYPE] = HStr("c1")}

Ctx(headers, body) == [t |-> "ctx", headers |-> headers, body |-> body]

\* a request context: with inbound headers, or with none
Contexts(budget, bodies) ==
  {Ctx(JUndefined, b) : b \in bodies} \cup
  {Ctx(JObj(m), b) : m \in InboundHeaderMaps(budget), b \in bodies}

BaseNames == {API_KEY, TENANT_ID, "Content-Type"}
BaseVals == {"b1", "b2"}
PairLists == UNION {[1..k -> BaseNames \X BaseVals] : k \in 0..MaxPairs}
DistinctKeys(l) == \A i, j \in 1..Len(l) : l[i][1] = l[j][1] => i = j

\* the base headers a caller may supply, in each of the shapes of HeadersInit
BaseHeaders ==
  {JUndefined}
    \cup {[t |-> "array", v |-> l] : l \in PairLists}
    \cup {[t |-> "object", v |-> l] : l \in {l \in PairLists : DistinctKeys(l)}}
    \cup {[t |-> "Headers", v |-> AppendPairs(EmptyHeaders, l)] : l \in PairLists}

RECURSIVE CountValues(_, _)
CountValues(h, names) ==
  IF names = {} THEN 0
  ELSE LET n == CHOOSE n \in names : TRUE
       IN Len(h[n]) + CountValues(h, names \ {n})
Entries(headers) ==
  IF headers.t = "undefined" THEN 0
  ELSE IF headers.t = "Headers" THEN CountValues(headers.v, Names)
  ELSE Len(headers.v)

\* bodies a caller may pass to request
SerializedBody == JStr(JSONstringify(JObj(<< <<"userId", JStr(<<"u1">>)>> >>)))
Bodies ==
  {JUndefined, JNull, JObj(<<>>), JObj(<< <<"id", JNum(1)>> >>),
   JObj(<< <<"invite", JUndefined>> >>), JStr(<<>>), SerializedBody, JNum(5)}

\* the ambient tenant of a caller, and the configured internal API key
Tenants == {JUndefined, HStr("t1"), HStr("t2")}
ApiKeys == {JUndefined, HStr("k1")}

\* what the worker may answer
Statuses == {200, 299, 300, 404}
ContentTypes == {"application/json; charset=utf-8", "text/plain", "none"}
JsonBodies ==
  {JObj(<< <<"message", JStr(<<"not found">>)>> >>),
   JObj(<< <<"id", JNum(1)>> >>),
   JObj(<< <<"message", JNull>>, <<"id", JNum(1)>> >>)}
BodyTexts == {JSONstringify(v) : v \in JsonBodies} \cup {<<"Bad Gateway">>}
Responses ==
  [status : Statuses, ctype : ContentTypes, body : BodyTexts]

\* ----------------------------------------------------------------- state
VARIABLES
  INTERNAL_API_KEY,  \* coreEnv.INTERNAL_API_KEY: undefined or the key
  pc,                \* where each caller's call stands
  op,                \* the operation each caller invoked
  tenant,            \* the ambient tenant of each caller
  init,              \* the object handed to request()
  desc,              \* the descriptor request() returned
  copied,            \* the header writes request() made from the context
  sent,              \* the fetches the invocation has issued
  response,          \* the response fetch resolved with
  ctxErrors,         \* what was signalled through the context's ctx.throw
  outcome            \* how the invocation ended

vars == <<INTERNAL_API_KEY, pc, op, tenant, init, desc, copied, sent,
          response, ctxErrors, outcome>>

NoRecord == [method |-> "none"]
NoResponse == [status |-> 0, ctype |-> "none", body |-> <<>>]
Pending == [kind |-> "pending"]

Init ==
  /\ INTERNAL_API_KEY \in ApiKeys
  /\ pc = [p \in Calls |-> "idle"]
  /\ op = [p \in Calls |-> "none"]
  /\ tenant = [p \in Calls |-> JUndefined]
  /\ init = [p \in Calls |-> NoRecord]
  /\ desc = [p \in Calls |-> NoRecord]
  /\ copied = [p \in Calls |-> <<>>]
  /\ sent = [p \in Calls |-> 0]
  /\ response = [p \in Calls |-> NoResponse]
  /\ ctxErrors = [p \in Calls |-> <<>>]
  /\ outcome = [p \in Calls |-> Pending]

\* --------------------------------------------------------------- actions
\* Each action takes the sets its inputs are drawn from: T tenants, I init
\* objects, C contexts, R responses.

\* a caller builds a descriptor with request() and keeps it; H, B: the base
\* headers and bodies it may pass, CW[k]: the contexts of at most k values
CallRequest(p, T, H, CW, B) ==
  /\ pc[p] = "idle"
  /\ \E t \in T, h \in H, b \in B :
       \E c \in {JUndefined} \cup CW[MaxEntries - Entries(h)] :
         LET i == MakeInit("POST", c, h, b) IN
         /\ pc' = [pc EXCEPT ![p] = "built"]
         /\ op' = [op EXCEPT ![p] = "request"]
         /\ tenant' = [tenant EXCEPT ![p] = t]
         /\ init' = [init EXCEPT ![p] = i]
         /\ desc' = [desc EXCEPT ![p] = request(i, t, INTERNAL_API_KEY)]
         /\ copied' = [copied EXCEPT ![p] = ContextWrites(c)]
  /\ UNCHANGED <<INTERNAL_API_KEY, sent, response, ctxErrors, outcome>>

\* (the header container shared between the calls in flight)
InvokeShared(p, o, t, i) ==
  LET others == {q \in Calls \ {p} : pc[q] = "fetching"}
      shared == IF others = {} THEN i
                ELSE Put(i, "headers", desc[CHOOSE q \in others : TRUE].headers)
  IN
  /\ pc' = [pc EXCEPT ![p] = "fetching"]
  /\ op' = [op EXCEPT ![p] = o]
  /\ tenant' = [tenant EXCEPT ![p] = t]
  /\ init' = [init EXCEPT ![p] = i]
  /\ desc' = [desc EXCEPT ![p] = request(shared, t, INTERNAL_API_KEY)]
  /\ copied' = [copied EXCEPT ![p] = ContextWrites(Get(i, "ctx"))]
  /\ sent' = [sent EXCEPT ![p] = @ + 1]
  /\ UNCHANGED <<INTERNAL_API_KEY, response, ctxErrors, outcome>>

\* fetch(url, request(i)): the synchronous start of every worker operation
Invoke(p, o, t, i) ==
  /\ pc' = [pc EXCEPT ![p] = "fetching"]
  /\ op' = [op EXCEPT ![p] = o]
  /\ tenant' = [tenant EXCEPT ![p] = t]
  /\ init' = [init EXCEPT ![p] = i]
  /\ desc' = [desc EXCEPT ![p] = request(i, t, INTERNAL_API_KEY)]
  /\ copied' = [copied EXCEPT ![p] = ContextWrites(Get(i, "ctx"))]
  /\ sent' = [sent EXCEPT ![p] = @ + 1]
  /\ UNCHANGED <<INTERNAL_API_KEY, response, ctxErrors, outcome>>

Invites == {JUndefined, JObj(<< <<"inviteCode", JStr(<<"i1">>)>> >>)}
UserIds == {"u1"}

sendSmtpEmail(p, T) ==
  /\ pc[p] = "idle"
  /\ \E t \in T, invite \in Invites :
       Invoke(p, "sendSmtpEmail", t,
              MakeInit("POST", JUndefined, JUndefined,
                       JStr(JSONstringify(
                              JObj(<< <<"email", JStr(<<"to">>)>>,
                                      <<"purpose", JStr(<<"custom">>)>>,
                                      <<"invite", invite>> >>)))))

removeAppFromUserRoles(p, T, C) ==
  /\ pc[p] = "idle"
  /\ \E t \in T, ctx \in C :
       Invoke(p, "removeAppFromUserRoles", t,
              MakeInit("DELETE", ctx, JUndefined, JUndefined))

allGlobalUsers(p, T, C) ==
  /\ pc[p] = "idle"
  /\ \E t \in T, ctx \in C :
       Invoke(p, "allGlobalUsers", t,
              MakeInit("GET", ctx, JUndefined, JUndefined))

saveGlobalUser(p, T, C) ==
  /\ pc[p] = "idle"
  /\ \E t \in T, ctx \in C :
       Invoke(p, "saveGlobalUser", t,
              MakeInit("POST", ctx, JUndefined, ctx.body))

deleteGlobalUser(p, T, C) ==
  /\ pc[p] = "idle"
  /\ \E t \in T, ctx \in C :
       Invoke(p, "deleteGlobalUser", t,
              MakeInit("DELETE", ctx, JUndefined, JUndefined))

readGlobalUser(p, T, C) ==
  /\ pc[p] = "idle"
  /\ \E t \in T, ctx \in C :
       Invoke(p, "readGlobalUser", t,
              MakeInit("GET", ctx, JUndefined, JUndefined))

getChecklist(p, T) ==
  /\ pc[p] = "idle"
  /\ \E t \in T :
       Invoke(p, "getChecklist", t,
              MakeInit("GET", JUndefined, JUndefined, JUndefined))

generateApiKey(p, T) ==
  /\ pc[p] = "idle"
  /\ \E t \in T, userId \in UserIds :
       Invoke(p, "generateApiKey", t,
              MakeInit("POST", JUndefined, JUndefined,
                       JStr(JSONstringify(
                              JObj(<< <<"userId", JStr(<<userId>>)>> >>)))))

\* fetch resolves: the descriptor has served and is dropped, and
\* checkResponse starts reading the body
FetchResolved(p, R) ==
  /\ pc[p] = "fetching"
  /\ \E r \in R : response' = [response EXCEPT ![p] = r]
  /\ pc' = [pc EXCEPT ![p] = "reading"]
  /\ init' = [init EXCEPT ![p] = NoRecord]
  /\ desc' = [desc EXCEPT ![p] = NoRecord]
  /\ copied' = [copied EXCEPT ![p] = <<>>]
  /\ UNCHANGED <<INTERNAL_API_KEY, op, tenant, sent, ctxErrors, outcome>>

\* fetch rejects (no connection): the operation rejects with that error
FetchRejected(p) ==
  /\ pc[p] = "fetching"
  /\ pc' = [pc EXCEPT ![p] = "done"]
  /\ outcome' = [outcome EXCEPT ![p] = [kind |-> "rejected", error |-> "fetch"]]
  /\ init' = [init EXCEPT ![p] = NoRecord]
  /\ desc' = [desc EXCEPT ![p] = NoRecord]
  /\ copied' = [copied EXCEPT ![p] = <<>>]
  /\ UNCHANGED <<INTERNAL_API_KEY, op, tenant, sent, response, ctxErrors>>

\* (a failed response answered by fetching again)
ResponseCheckedRetry(p) ==
  /\ pc[p] = "reading"
  /\ IF IsFailure(response[p])
     THEN /\ pc' = [pc EXCEPT ![p] = "fetching"]
          /\ sent' = [sent EXCEPT ![p] = @ + 1]
          /\ UNCHANGED <<outcome, ctxErrors>>
     ELSE /\ pc' = [pc EXCEPT ![p] = "done"]
          /\ outcome' = [outcome EXCEPT
               ![p] = checkResponse(response[p], ErrorMsg(op[p]),
                                    PassesCtx(op[p]))]
          /\ UNCHANGED <<sent, ctxErrors>>
  /\ UNCHANGED <<INTERNAL_API_KEY, op, tenant, init, desc, copied, response>>

\* the body has been read: checkResponse ends, and the operation with it
ResponseChecked(p) ==
  /\ pc[p] = "reading"
  /\ LET end == checkResponse(response[p], ErrorMsg(op[p]), PassesCtx(op[p]))
     IN /\ outcome' = [outcome EXCEPT ![p] = end]
        /\ ctxErrors' =
             IF end.kind = "ctx.throw"
             THEN [ctxErrors EXCEPT
                     ![p] = Append(@, [status |-> end.status, msg |-> end.msg])]
             ELSE ctxErrors
  /\ pc' = [pc EXCEPT ![p] = "done"]
  /\ UNCHANGED <<INTERNAL_API_KEY, op, tenant, init, desc, copied, sent,
                 response>>

\* the caller has its answer and may call again
Return(p) ==
  /\ pc[p] \in {"built", "done"}
  /\ pc' = [pc EXCEPT ![p] = "idle"]
  /\ op' = [op EXCEPT ![p] = "none"]
  /\ tenant' = [tenant EXCEPT ![p] = JUndefined]
  /\ init' = [init EXCEPT ![p] = NoRecord]
  /\ desc' = [desc EXCEPT ![p] = NoRecord]
  /\ copied' = [copied EXCEPT ![p] = <<>>]
  /\ sent' = [sent EXCEPT ![p] = 0]
  /\ response' = [response EXCEPT ![p] = NoResponse]
  /\ ctxErrors' = [ctxErrors EXCEPT ![p] = <<>>]
  /\ outcome' = [outcome EXCEPT ![p] = Pending]
  /\ UNCHANGED INTERNAL_API_KEY

\* ----------------------------------------------------- specifications
\* Spec: one caller, every input within the bounds
Solo == "a"
SoloTenants == {JUndefined, HStr("t1")}
ContextsWithin == [k \in 0..MaxEntries |-> Contexts(k, {JUndefined})]
SoloHeaders == {h \in BaseHeaders : Entries(h) <= MaxEntries}
SoloContexts == Contexts(MaxEntries, {JUndefined})
SoloSaveContexts == Contexts(MaxEntries, Bodies)

Next ==
  \/ CallRequest(Solo, SoloTenants, SoloHeaders, ContextsWithin, Bodies)
  \/ sendSmtpEmail(Solo, SoloTenants)
  \/ removeAppFromUserRoles(Solo, SoloTenants, SoloContexts)
  \/ allGlobalUsers(Solo, SoloTenants, SoloContexts)
  \/ saveGlobalUser(Solo, SoloTenants, SoloSaveContexts)
  \/ deleteGlobalUser(Solo, SoloTenants, SoloContexts)
  \/ readGlobalUser(Solo, SoloTenants, SoloContexts)
  \/ getChecklist(Solo, SoloTenants)
  \/ generateApiKey(Solo, SoloTenants)
  \/ FetchResolved(Solo, Responses)
  \/ FetchRejected(Solo)
  \/ ResponseChecked(Solo)
  \/ Return(Solo)

Spec == Init /\ [][Next]_vars

\* a few contexts and responses, one of each kind, for the specifications
\* below
FewContexts ==
  {Ctx(JUndefined, JUndefined),
   Ctx(JObj(TENANT_ID :> HStr("c1")), JUndefined),
   Ctx(JObj(API_KEY :> HArr(<<"c1", "c2">>)), JUndefined),
   Ctx(JObj(API_KEY :> HStr("c2") @@ CONTENT_TYPE :> HStr("c1")),
       JObj(<< <<"id", JNum(1)>> >>))}
FewResponses ==
  {[status |-> 200, ctype |-> "application/json; charset=utf-8",
    body |-> JSONstringify(JObj(<< <<"id", JNum(1)>> >>))],
   [status |-> 404, ctype |-> "application/json; charset=utf-8",
    body |-> JSONstringify(JObj(<< <<"message", JStr(<<"not found">>)>> >>))],
   [status |-> 404, ctype |-> "text/plain", body |-> <<"Bad Gateway">>],
   [status |-> 200, ctype |-> "text/plain", body |-> <<"Bad Gateway">>],
   [status |-> 300, ctype |-> "application/json; charset=utf-8",
    body |-> <<"Bad Gateway">>]}

\* OpsSpec: the worker operations of one caller, every response; the
\* transport settles each fetch and the event loop resumes each await
OpsNext ==
  \/ sendSmtpEmail(Solo, SoloTenants)
  \/ removeAppFromUserRoles(Solo, SoloTenants, FewContexts)
  \/ allGlobalUsers(Solo, SoloTenants, FewContexts)
  \/ saveGlobalUser(Solo, SoloTenants, FewContexts)
  \/ deleteGlobalUser(Solo, SoloTenants, FewContexts)
  \/ readGlobalUser(Solo, SoloTenants, FewContexts)
  \/ getChecklist(Solo, SoloTenants)
  \/ generateApiKey(Solo, SoloTenants)
  \/ FetchResolved(Solo, Responses)
  \/ FetchRejected(Solo)
  \/ ResponseChecked(Solo)
  \/ Return(Solo)

OpsSpec ==
  /\ Init
  /\ [][OpsNext]_vars
  /\ WF_vars(FetchResolved(Solo, Responses) \/ FetchRejected(Solo))
  /\ WF_vars(ResponseChecked(Solo))

\* ConcSpec: the worker operations of two unrelated callers, interleaved at
\* their awaits
ConcNext ==
  \E p \in Calls :
    \/ sendSmtpEmail(p, Tenants)
    \/ removeAppFromUserRoles(p, Tenants, FewContexts)
    \/ allGlobalUsers(p, Tenants, FewContexts)
    \/ saveGlobalUser(p, Tenants, FewContexts)
    \/ deleteGlobalUser(p, Tenants, FewContexts)
    \/ readGlobalUser(p, Tenants, FewContexts)
    \/ getChecklist(p, Tenants)
    \/ generateApiKey(p, Tenants)
    \/ FetchResolved(p, FewResponses)
    \/ FetchRejected(p)
    \/ ResponseChecked(p)
    \/ Return(p)

ConcSpec == Init /\ [][ConcNext]_vars

\* ShapeSpec: request() alone, on base headers of every shape and spelling
\* (a mapping repeats a name by spelling it in two cases)
ShapeNames == BaseNames \cup {CONTENT_TYPE}
ShapePairLists == UNION {[1..k -> ShapeNames \X BaseVals] : k \in 0..MaxPairs}
ShapeHeaders ==
  {JUndefined}
    \cup {[t |-> "array", v |-> l] : l \in ShapePairLists}
    \cup {[t |-> "object", v |-> l] :
            l \in {l \in ShapePairLists : DistinctKeys(l)}}
    \cup {[t |-> "Headers", v |-> AppendPairs(EmptyHeaders, l)] :
            l \in ShapePairLists}
ShapeContexts ==
  [k \in 0..MaxEntries |->
     {Ctx(JObj(TENANT_ID :> HStr("c1")), JUndefined),
      Ctx(JObj(API_KEY :> HArr(<<"c1", "c2">>) @@ CONTENT_TYPE :> HStr("c1")),
          JUndefined)}]
ShapeBodies == {JUndefined, JObj(<< <<"id", JNum(1)>> >>)}

ShapeNext ==
  \/ CallRequest(Solo, SoloTenants, ShapeHeaders, ShapeContexts, ShapeBodies)
  \/ Return(Solo)

ShapeSpec == Init /\ [][ShapeNext]_vars

\* ------------------------------------------------------------ properties
\* a descriptor is at hand: built, or handed to fetch
Built(p) == pc[p] \in {"built", "fetching"}
\* the header container of the descriptor
Out(p) == desc[p].headers.v
BodyOf(p) == Get(init[p], "body")
CtxOf(p) == Get(init[p], "ctx")
HasInbound(p) == CtxOf(p).t = "ctx" /\ CtxOf(p).headers.t = "object"

Values(pairs) == [k \in 1..Len(pairs) |-> pairs[k][2]]
\* the values the base headers carry for the lower-cased name n
BaseValues(p, n) ==
  LET h == Get(init[p], "headers") IN
  IF h.t = "undefined" THEN <<>>
  ELSE IF h.t = "Headers" THEN h.v[n]
  ELSE LET Named(pr) == Lower(pr[1]) = n IN Values(SelectSeq(h.v, Named))

\* the values an inbound header carries, one by one
InboundValues(p, n) ==
  LET v == IF HasInbound(p) THEN Get(CtxOf(p).headers.v, n) ELSE JUndefined
  IN IF v.t = "array" THEN v.v ELSE IF v.t = "string" THEN <<v.v>> ELSE <<>>
InboundIsArray(p, n) ==
  HasInbound(p) /\ Get(CtxOf(p).headers.v, n).t = "array"
InboundIsString(p, n) ==
  HasInbound(p) /\ Get(CtxOf(p).headers.v, n).t = "string"

\* what the context leaves under an allow-listed name: a string replaces
\* the base values, an array is appended to them
WithInbound(p, n) ==
  IF InboundIsArray(p, n) THEN BaseValues(p, n) \o InboundValues(p, n)
  ELSE IF InboundIsString(p, n) THEN InboundValues(p, n)
  ELSE BaseValues(p, n)

NonEmptyObject(v) == v.t = "object" /\ Len(v.v) > 0

\* C1: request, given a non-empty object body, returns Content-Type
\* application/json and the body's JSON serialization; given an empty object
\* or no body, it returns a descriptor without a body field.
C1_ObjectBody ==
  \A p \in Calls : Built(p) =>
    /\ NonEmptyObject(BodyOf(p)) =>
         /\ Out(p)[CONTENT_TYPE] = <<"application/json">>
         /\ "body" \in DOMAIN desc[p]
         /\ desc[p]["body"] = JStr(JSONstringify(BodyOf(p)))
    /\ (BodyOf(p) = JObj(<<>>) \/ "body" \notin DOMAIN init[p]) =>
         "body" \notin DOMAIN desc[p]

C1_Witness ==
  \E p \in Calls :
    /\ Built(p)
    /\ BodyOf(p) = JObj(<< <<"id", JNum(1)>> >>)
    /\ desc[p]["body"] = JStr(<<"{", "\"", "id", "\"", ":", "1", "}">>)

\* C2 as claimed: whenever the body is present but is not a non-empty
\* object, the body field is stripped and the body step leaves Content-Type
\* as the base headers had it.
C2_Original ==
  \A p \in Calls :
    (Built(p) /\ "body" \in DOMAIN init[p] /\ ~NonEmptyObject(BodyOf(p))) =>
      /\ "body" \notin DOMAIN desc[p]
      /\ Out(p)[CONTENT_TYPE] = BaseValues(p, CONTENT_TYPE)

\* C2 amended: a body that is a non-empty string (one the caller has already
\* serialized) is kept as it is and Content-Type is set to application/json;
\* a body that is present but falsy or without keys (null, the empty string,
\* a number, the empty object) is stripped and the body step leaves
\* Content-Type as the base headers had it.
C2_StringBody ==
  \A p \in Calls : (Built(p) /\ "body" \in DOMAIN init[p]) =>
    /\ (BodyOf(p).t = "string" /\ Len(BodyOf(p).v) > 0) =>
         /\ "body" \in DOMAIN desc[p]
         /\ desc[p]["body"] = BodyOf(p)
         /\ Out(p)[CONTENT_TYPE] = <<"application/json">>
    /\ (BodyOf(p) \in {JNull, JStr(<<>>), JObj(<<>>)} \/ BodyOf(p).t = "number") =>
         /\ "body" \notin DOMAIN desc[p]
         /\ Out(p)[CONTENT_TYPE] = BaseValues(p, CONTENT_TYPE)

C2_Witness ==
  \E p \in Calls :
    /\ pc[p] = "fetching" /\ op[p] = "generateApiKey"
    /\ BodyOf(p).t = "string"
    /\ desc[p]["body"] = BodyOf(p)
    /\ Out(p)[CONTENT_TYPE] = <<"application/json">>

\* C3: with a context that carries inbound headers, the (name, value) pairs
\* request copies are exactly the inbound headers of the allow-list, every
\* value of a multi-valued header appended in its turn; nothing inbound
\* from outside the allow-list reaches the outbound headers.
C3_AllowListCopy ==
  \A p \in Calls : (Built(p) /\ HasInbound(p)) =>
    /\ \A n \in Names \cup DOMAIN CtxOf(p).headers.v :
         LET Named(w) == w.name = n
             written == SelectSeq(copied[p], Named)
         IN /\ Len(written) =
                 IF n \in AllowList THEN Len(InboundValues(p, n)) ELSE 0
            /\ \A k \in 1..Len(written) :
                 written[k].value = InboundValues(p, n)[k]
    /\ \A n \in AllowList \ {CORRELATION_ID} :
         (n = TENANT_ID => tenant[p].t = "undefined") =>
           Out(p)[n] = WithInbound(p, n)
    /\ \A k \in 1..Len(Out(p)[CONTENT_TYPE]) :
         Out(p)[CONTENT_TYPE][k] \notin InboundVals

C3_Witness ==
  \E p \in Calls :
    /\ Built(p) /\ HasInbound(p)
    /\ CONTENT_TYPE \in DOMAIN CtxOf(p).headers.v
    /\ BaseValues(p, API_KEY) = <<"b1">>
    /\ InboundIsArray(p, API_KEY)
    /\ Out(p)[API_KEY] = <<"b1", "c1", "c2">>

\* C4: with an ambient tenant, the returned tenant-ID header has exactly one
\* value, the ambient tenant, whatever the context and the base headers
\* carried; with none, the header is as the earlier steps left it.
C4_TenantHeader ==
  \A p \in Calls : Built(p) =>
    /\ tenant[p].t # "undefined" => Out(p)[TENANT_ID] = <<tenant[p].v>>
    /\ tenant[p].t = "undefined" => Out(p)[TENANT_ID] = WithInbound(p, TENANT_ID)

C4_Witness ==
  \E p \in Calls :
    /\ Built(p)
    /\ tenant[p] = HStr("t1")
    /\ BaseValues(p, TENANT_ID) # <<>>
    /\ Len(InboundValues(p, TENANT_ID)) = 2
    /\ Out(p)[TENANT_ID] = <<"t1">>

\* C5 as claimed: without a context the API-key header is the configured key,
\* or absent when none is configured; with a context the configured key is
\* never written.
C5_Original ==
  \A p \in Calls : Built(p) =>
    /\ (CtxOf(p).t = "undefined" /\ INTERNAL_API_KEY.t # "undefined") =>
         Out(p)[API_KEY] = <<INTERNAL_API_KEY.v>>
    /\ (CtxOf(p).t = "undefined" /\ INTERNAL_API_KEY.t = "undefined") =>
         Out(p)[API_KEY] = <<>>
    /\ CtxOf(p).t = "ctx" => Out(p)[API_KEY] = WithInbound(p, API_KEY)

\* C5 amended: without a context the API-key header is the configured key,
\* or, when none is configured, what the base headers carried (absent if
\* they carried none); with a context the header is what the base headers
\* and the inbound headers make it, never the configured key.
C5_ApiKeyHeader ==
  \A p \in Calls : Built(p) =>
    /\ (CtxOf(p).t = "undefined" /\ INTERNAL_API_KEY.t # "undefined") =>
         Out(p)[API_KEY] = <<INTERNAL_API_KEY.v>>
    /\ (CtxOf(p).t = "undefined" /\ INTERNAL_API_KEY.t = "undefined") =>
         Out(p)[API_KEY] = BaseValues(p, API_KEY)
    /\ CtxOf(p).t = "ctx" =>
         /\ Out(p)[API_KEY] = WithInbound(p, API_KEY)
         /\ INTERNAL_API_KEY.t # "undefined" =>
              \A k \in 1..Len(Out(p)[API_KEY]) :
                Out(p)[API_KEY][k] # INTERNAL_API_KEY.v

C5_Witness ==
  \E p \in Calls :
    /\ Built(p)
    /\ CtxOf(p).t = "ctx"
    /\ INTERNAL_API_KEY = HStr("k1")
    /\ Out(p)[API_KEY] = <<"c1">>

\* ------------------------------------------- properties of checkResponse
\* checkResponse has ended on a response the worker sent
Checked(p) == pc[p] = "done" /\ response[p] # NoResponse
Rejection(p) == Checked(p) /\ response[p].status >= 300

\* the message of the failure an invocation ended with, <<>> when it ended
\* with none
FailureMessage(p) ==
  IF outcome[p].kind = "thrown" THEN outcome[p].value.v
  ELSE IF outcome[p].kind = "ctx.throw" THEN outcome[p].msg
  ELSE <<>>

\* the JSON values whose serialization is the text
Readings(text) == {v \in JsonBodies : JSONstringify(v) = text}
HasMessage(v) ==
  \E k \in 1..Len(v.v) : v.v[k][1] = "message" /\ v.v[k][2].t = "string"
MessageOf(v) ==
  LET k == CHOOSE k \in 1..Len(v.v) : v.v[k][1] = "message" IN v.v[k][2].v

\* the detail C6 names: the message field of the JSON body when the content
\* type indicates JSON and the field is there, the whole body when it is
\* not, the raw text for any other content type
ClaimedDetail(r) ==
  IF r.ctype = "application/json; charset=utf-8" /\ Readings(r.body) # {}
  THEN LET v == CHOOSE v \in Readings(r.body) : TRUE
       IN IF HasMessage(v) THEN MessageOf(v) ELSE r.body
  ELSE r.body

\* C6 as claimed: every response with status >= 300 ends checkResponse in a
\* failure whose message is exactly "Unable to <label> - <detail>".
C6_Original ==
  \A p \in Calls : Rejection(p) =>
    FailureMessage(p) =
      <<"Unable to ", ErrorMsg(op[p]), " - ">> \o ClaimedDetail(response[p])

\* C7 as claimed: on a status >= 300, with a context the failure goes exactly
\* once through ctx.throw, with the response's status and the composed
\* message, and nothing is raised as a plain value; without one the composed
\* message is raised as a plain value; no parsed body is returned.
C7_Original ==
  \A p \in Calls : Rejection(p) =>
    /\ outcome[p].kind # "returned"
    /\ PassesCtx(op[p]) =>
         /\ outcome[p].kind = "ctx.throw"
         /\ ctxErrors[p] = <<[status |-> response[p].status,
                              msg |-> outcome[p].msg]>>
    /\ ~PassesCtx(op[p]) =>
         /\ outcome[p].kind = "thrown"
         /\ outcome[p].value.t = "string"
         /\ ctxErrors[p] = <<>>

\* C8: a response with status < 300 (299 still a success, 300 not) whose
\* body is valid JSON signals no failure, to the caller or through the
\* context, and the parsed JSON body is returned unchanged.
C8_SuccessReturnsJson ==
  \A p \in Calls : Checked(p) =>
    /\ response[p].status < 300 =>
         \A v \in Readings(response[p].body) :
           /\ outcome[p] = [kind |-> "returned", value |-> v]
           /\ ctxErrors[p] = <<>>
    /\ response[p].status >= 300 => outcome[p].kind # "returned"

C8_Witness ==
  \E p \in Calls :
    /\ Checked(p)
    /\ response[p].status = 299
    /\ PassesCtx(op[p])
    /\ response[p].body = <<"{", "\"", "id", "\"", ":", "1", "}">>
    /\ outcome[p] = [kind |-> "returned", value |-> JObj(<< <<"id", JNum(1)>> >>)]

\* -------------------------------------------------- properties of the operations
Ended == {"returned", "thrown", "ctx.throw", "rejected"}

\* one fetch per invocation, and an end that is a result or a failure
OneFetch(p) ==
  /\ op[p] \in Operations =>
       sent[p] = 1 /\ pc[p] \in {"fetching", "reading", "done"}
  /\ op[p] \notin Operations => sent[p] = 0
  /\ pc[p] = "done" =>
       /\ outcome[p].kind \in Ended
       /\ outcome[p].kind = "returned" => response[p].status \in 1..299
       /\ outcome[p].kind = "ctx.throw" => ctxErrors[p] # <<>>
  /\ pc[p] # "done" => outcome[p] = Pending /\ ctxErrors[p] = <<>>

\* build and send come first and once, the check after them, and nothing is
\* fetched again
InOrder(p) ==
  /\ sent'[p] # sent[p] =>
       \/ pc[p] = "idle" /\ sent'[p] = 1 /\ pc'[p] = "fetching"
            /\ desc'[p] # NoRecord
       \/ pc'[p] = "idle"
  /\ response'[p] # response[p] => pc[p] = "fetching" \/ pc'[p] = "idle"
  /\ outcome'[p] # outcome[p] =>
       pc[p] \in {"fetching", "reading"} \/ pc'[p] = "idle"
  /\ (pc[p] = "reading" /\ pc'[p] # pc[p]) => pc'[p] = "done"

\* C9: every worker operation issues exactly one fetch, in the order build,
\* send, check, and then ends with the parsed result or with a failure that
\* reaches the caller or the context; a failed response is not retried and
\* not swallowed.
C9_OneRoundTrip ==
  /\ [](\A p \in Calls : OneFetch(p))
  /\ [][\A p \in Calls : InOrder(p)]_vars
  /\ \A p \in Calls : (pc[p] = "fetching") ~> (pc[p] = "done")

C9_Witness ==
  \E p \in Calls :
    /\ pc[p] = "done" /\ sent[p] = 1
    /\ op[p] = "readGlobalUser"
    /\ response[p].status = 404
    /\ outcome[p].kind = "ctx.throw"
    /\ ctxErrors[p] = <<[status |-> 404,
                         msg |-> <<"Unable to ", "get user", " - ",
                                   "not found">>]>>

\* the descriptor of caller p is made of p's own inputs alone
OwnDescriptor(p) ==
  /\ Out(p)[TENANT_ID] =
       IF tenant[p].t # "undefined" THEN <<tenant[p].v>>
       ELSE WithInbound(p, TENANT_ID)
  /\ Out(p)[API_KEY] =
       IF CtxOf(p).t = "ctx" THEN WithInbound(p, API_KEY)
       ELSE IF INTERNAL_API_KEY.t # "undefined" THEN <<INTERNAL_API_KEY.v>>
       ELSE BaseValues(p, API_KEY)
  /\ IF NonEmptyObject(BodyOf(p))
     THEN desc[p]["body"] = JStr(JSONstringify(BodyOf(p)))
     ELSE IF BodyOf(p).t = "string" /\ Len(BodyOf(p).v) > 0
     THEN desc[p]["body"] = BodyOf(p)
     ELSE "body" \notin DOMAIN desc[p]
  /\ Out(p)[CONTENT_TYPE] =
       IF "body" \in DOMAIN desc[p] THEN <<"application/json">>
       ELSE BaseValues(p, CONTENT_TYPE)
  /\ desc[p].method = init[p].method

\* the outcome of caller p answers p's own operation and response
OwnOutcome(p) ==
  /\ outcome[p].kind = "returned" =>
       /\ outcome[p].value \in Readings(response[p].body)
       /\ response[p].status < 300
  /\ outcome[p].kind \in {"thrown", "ctx.throw"} =>
       /\ response[p].status >= 300
       /\ SubSeq(FailureMessage(p), 1, 3)
            = <<"Unable to ", ErrorMsg(op[p]), " - ">>
       /\ (outcome[p].kind = "ctx.throw") = PassesCtx(op[p])
  /\ ctxErrors[p] # <<>> => outcome[p].kind = "ctx.throw"

CallState(p) ==
  <<pc[p], op[p], tenant[p], init[p], desc[p], copied[p], sent[p],
    response[p], ctxErrors[p], outcome[p]>>

\* C10: under every interleaving of two callers' operations, each
\* descriptor and each outcome is what the caller's own inputs make it, and
\* a step of one call leaves the other call as it was.
C10_Isolation ==
  /\ [](\A p \in Calls :
          /\ pc[p] = "fetching" => OwnDescriptor(p)
          /\ pc[p] = "done" => OwnOutcome(p))
  /\ [][\E q \in Calls : \A p \in Calls \ {q} : CallState(p)' = CallState(p)]_vars

C10_Witness ==
  /\ pc["a"] = "fetching" /\ pc["b"] = "fetching"
  /\ tenant["a"] = HStr("t1") /\ tenant["b"] = HStr("t2")
  /\ op["a"] = "readGlobalUser" /\ op["b"] = "getChecklist"
  /\ INTERNAL_API_KEY = HStr("k1")
  /\ Out("a")[API_KEY] = <<"c1", "c2">> /\ Out("a")[TENANT_ID] = <<"t1">>
  /\ Out("b")[API_KEY] = <<"k1">> /\ Out("b")[TENANT_ID] = <<"t2">>

\* ------------------------------------------- properties of the header shapes
\* the same multiset of values
SameValues(s1, s2) ==
  \A x \in {s1[i] : i \in 1..Len(s1)} \cup {s2[i] : i \in 1..Len(s2)} :
    Cardinality({i \in 1..Len(s1) : s1[i] = x})
      = Cardinality({i \in 1..Len(s2) : s2[i] = x})
\* equivalent containers: the same names, the same multiset under each
Equivalent(h1, h2) == \A n \in Names : SameValues(h1[n], h2[n])

\* the <<name, value>> a set of base headers holds
RECURSIVE ContainerPairs(_, _)
ContainerPairs(h, names) ==
  IF names = {} THEN <<>>
  ELSE LET n == CHOOSE n \in names : TRUE
       IN [k \in 1..Len(h[n]) |-> <<n, h[n][k]>>]
            \o ContainerPairs(h, names \ {n})
PairsOf(headers) ==
  IF headers.t = "undefined" THEN <<>>
  ELSE IF headers.t = "Headers" THEN ContainerPairs(headers.v, Names)
  ELSE headers.v

\* the same base headers in every order, as a list of pairs, as a mapping
\* (where no key is repeated) and as a container
Orders(l) == {[i \in 1..Len(l) |-> l[f[i]]] : f \in Permutations(1..Len(l))}
Shapes(l) ==
  {[t |-> "array", v |-> k] : k \in Orders(l)}
    \cup {[t |-> "object", v |-> k] : k \in {k \in Orders(l) : DistinctKeys(k)}}
    \cup {[t |-> "Headers", v |-> AppendPairs(EmptyHeaders, k)] :
            k \in Orders(l)}

\* C11: the base headers given as a list of pairs, as a plain mapping or as
\* a built container, in any order, leave request() with equivalent
\* outbound containers: under every name the same multiset of values, a
\* repeated name keeping each of its values.
C11_ShapesEquivalent ==
  \A p \in Calls :
    pc[p] = "built" =>
      /\ \A h \in Shapes(PairsOf(Get(init[p], "headers"))) :
           Equivalent(
             request(Put(init[p], "headers", h), tenant[p],
                     INTERNAL_API_KEY).headers.v,
             Out(p))
      /\ (CtxOf(p).t # "ctx" /\ tenant[p].t = "undefined") =>
           SameValues(Out(p)[TENANT_ID], BaseValues(p, TENANT_ID))
      /\ (CtxOf(p).t # "ctx" /\ ~HasBody(BodyOf(p))) =>
           SameValues(Out(p)[CONTENT_TYPE], BaseValues(p, CONTENT_TYPE))

C11_Witness ==
  \E p \in Calls :
    /\ pc[p] = "built"
    /\ Get(init[p], "headers") =
         [t |-> "object", v |-> << <<"Content-Type", "b1">>,
                                   <<CONTENT_TYPE, "b2">> >>]
    /\ CtxOf(p).t # "ctx" /\ BodyOf(p).t = "undefined"
    /\ Out(p)[CONTENT_TYPE] = <<"b1", "b2">>
    /\ \E h \in Shapes(PairsOf(Get(init[p], "headers"))) :
         h.t = "Headers" /\ h.v[CONTENT_TYPE] = <<"b2", "b1">>

\* ------------------------------------- properties of the operations' failures
\* C12 as claimed: a remote rejection (status >= 300) of an operation that
\* receives a request context goes through that context's error channel
\* with the remote status, and no bare message string is raised to the
\* caller; only the context-free operations raise the bare message.
C12_Original ==
  \A p \in Calls : Rejection(p) =>
    /\ op[p] \in ContextOps =>
         /\ outcome[p].kind = "ctx.throw"
         /\ outcome[p].status = response[p].status
         /\ Len(ctxErrors[p]) = 1
         /\ ctxErrors[p][1].status = response[p].status
    /\ outcome[p].kind = "thrown" => op[p] \in ContextFreeOps
====
